---- MODULE Spec2Model ----
(***************************************************************************)
(* A model of the dontorrent scrapers of davidperezmillan/scrap_api:       *)
(*   scrapers/dontorrent_scraper.py       (DontorrentScraper, "dontorrent")*)
(*   scrapers/dontorrent_fast_scraper.py  (DontorrentFastScraper,          *)
(*                                         "dontorrent-fast")              *)
(*                                                                         *)
(* Python strings are sequences of one-character strings, so that the      *)
(* regular expressions, zfill and int() of the source are computed and     *)
(* not assumed.  Python's None (and the empty string, which every test of  *)
(* the source treats like None) is the empty sequence.                     *)
(***************************************************************************)
EXTENDS Integers, Sequences, FiniteSets, TLC

VARIABLES
    variant,        \* the scraper that runs: "dontorrent" or "dontorrent-fast"
    criteria,       \* start_episode and end_episode of the request
    pc,             \* where the scrape stands (the call it is waiting in)
    pages,          \* the page (series or season) being crawled and the last one
    row,            \* table rows (episode links) read so far in the crawl
    ep,             \* the row in hand: its code and the download links to try
    pow,            \* the exchange in hand: challenge, difficulty, nonce
    torrents,       \* torrents of _get_episodes for the page being crawled
    all_torrents,   \* torrents of scrape, over the pages crawled so far
    result,         \* what scrape returned
    sent,           \* history: the generate and validate requests sent for
                    \*          the row in hand, in order
    call,           \* SpecCodes: the pure function under test, its arguments
    ret,            \* SpecCodes: what it returned (done is FALSE before)
    inbound,        \* the requests to POST /scrape: what was asked, where the
                    \*   handler stands, the locals of scrape, the result
    loop,           \* the request whose handler runs on the event loop, or 0
    manager         \* scraper_manager._scrapers: the scraper of each site

crawlVars == <<variant, criteria, pc, pages, row, ep, pow, torrents,
               all_torrents, result, sent>>

codeVars == <<call, ret>>

serveVars == <<inbound, loop, manager>>

vars == <<crawlVars, codeVars, serveVars>>

None == <<>>

Min(a, b) == IF a <= b THEN a ELSE b

MinOf(S) == CHOOSE x \in S : \A y \in S : x <= y

(***************************************************************************)
(* The process: the singleton ScraperManager with the scrapers it          *)
(* registers.  No request is served while a scrape or a function is        *)
(* looked at on its own.                                                   *)
(***************************************************************************)
\* ScraperManager._register_default_scrapers, two of the five it registers
\* (the registration of "dontorrent-fast" is commented out), each with the
\* fields BaseScraper.__init__ gives a scraper instance
Registered ==
    [site \in {"dontorrent", "quotes"} |->
        [name |-> site, headers |-> "User-Agent", timeout |-> 30]]

ServeIdle ==
    /\ inbound = <<>>
    /\ loop = 0
    /\ manager = Registered

(***************************************************************************)
(* Characters, digits, int() and zfill                                     *)
(***************************************************************************)
DigitSeq == <<"0", "1", "2", "3", "4", "5", "6", "7", "8", "9">>

Digits == {DigitSeq[i] : i \in 1..Len(DigitSeq)}

DigitVal(c) == (CHOOSE i \in 1..Len(DigitSeq) : DigitSeq[i] = c) - 1

\* re.IGNORECASE for the letters the patterns of the source name
Upper(c) ==
    CASE c = "s" -> "S"
      [] c = "e" -> "E"
      [] c = "x" -> "X"
      [] c = "h" -> "H"
      [] c = "d" -> "D"
      [] OTHER -> c

IsDigitAt(s, i) == i >= 1 /\ i <= Len(s) /\ s[i] \in Digits

\* s[i] is the letter c, whatever its case
IsLetterAt(s, i, c) == i >= 1 /\ i <= Len(s) /\ Upper(s[i]) = Upper(c)

\* the length of the run of digits of s that starts at position i
RECURSIVE DigitRun(_, _)
DigitRun(s, i) == IF IsDigitAt(s, i) THEN 1 + DigitRun(s, i + 1) ELSE 0

\* int(ds) of a string of digits
RECURSIVE ToInt(_)
ToInt(ds) ==
    IF ds = <<>> THEN 0
    ELSE 10 * ToInt(SubSeq(ds, 1, Len(ds) - 1)) + DigitVal(ds[Len(ds)])

\* str(n) of a natural number
RECURSIVE Dec(_)
Dec(n) == IF n < 10 THEN <<DigitSeq[n + 1]>> ELSE Dec(n \div 10) \o <<DigitSeq[(n % 10) + 1]>>

\* s.zfill(2) of a string of digits
Zfill2(s) == IF Len(s) < 2 THEN <<"0">> \o s ELSE s

(***************************************************************************)
(* The regular expressions  <lead>(\d{1,maxA})<sep>(\d{1,maxB})  of the    *)
(* source, searched case-insensitively.  lead is "" when the pattern has   *)
(* no leading letter; \d+ is a maximum of the length of the string.  The   *)
(* first group is followed by a letter, so it takes a whole run of digits; *)
(* the second is greedy up to maxB.  The result is <<group 1, group 2>> of *)
(* the leftmost match, or None.                                            *)
(***************************************************************************)
ReGroupsAt(s, i, lead, sep, maxA, maxB) ==
    LET a == IF lead = "" THEN i ELSE i + 1
        n == DigitRun(s, a)
        b == a + n + 1
        m == Min(DigitRun(s, b), maxB)
    IN  IF /\ (lead = "" \/ IsLetterAt(s, i, lead))
           /\ n >= 1
           /\ n <= maxA
           /\ IsLetterAt(s, a + n, sep)
           /\ m >= 1
        THEN <<SubSeq(s, a, a + n - 1), SubSeq(s, b, b + m - 1)>>
        ELSE None

ReSearch(s, lead, sep, maxA, maxB) ==
    LET hits == {i \in 1..Len(s) : ReGroupsAt(s, i, lead, sep, maxA, maxB) # None}
    IN  IF hits = {} THEN None
        ELSE ReGroupsAt(s, MinOf(hits), lead, sep, maxA, maxB)

(***************************************************************************)
(* DontorrentScraper._extract_episode_code: S01E01 or 1x01 in the label,   *)
(* season and episode zero-filled to two digits.                           *)
(***************************************************************************)
ExtractEpisodeCode(title) ==
    LET m1 == ReSearch(title, "S", "E", 2, 3)
        m2 == ReSearch(title, "", "x", 2, 3)
        m  == IF m1 # None THEN m1 ELSE m2
    IN  IF m = None THEN None
        ELSE <<"S">> \o Zfill2(m[1]) \o <<"E">> \o Zfill2(m[2])

\* DontorrentFastScraper._get_episodes, lines 210-215: S(\d+)E(\d+) only
FastExtractEpisodeCode(episode_text) ==
    LET m == ReSearch(episode_text, "S", "E", Len(episode_text), Len(episode_text))
    IN  IF m = None THEN None
        ELSE <<"S">> \o Zfill2(m[1]) \o <<"E">> \o Zfill2(m[2])

\* DontorrentScraper._is_valid_status_format: ^(HD|SD)S\d{2}E\d{2}$
IsValidStatusFormat(status) ==
    /\ Len(status) = 8
    /\ SubSeq(status, 1, 2) \in {<<"H", "D">>, <<"S", "D">>}
    /\ status[3] = "S"
    /\ status[4] \in Digits /\ status[5] \in Digits
    /\ status[6] = "E"
    /\ status[7] \in Digits /\ status[8] \in Digits

\* episode_code = f"{episode_format}{episode_code}" of DontorrentScraper._get_episodes
Tagged(tag, code) == IF code = None THEN None ELSE tag \o code

(***************************************************************************)
(* _is_in_range of both scrapers.  The verdict names the return statement  *)
(* that was taken: "nomatch" (the code carries no SxxExx), "early" (False  *)
(* from the start check), "late" (False from the end check), "in" (True).  *)
(***************************************************************************)
\* re.sub(r'^(HD|SD)', '', s)
StripTag(s) ==
    IF Len(s) >= 2 /\ SubSeq(s, 1, 2) \in {<<"H", "D">>, <<"S", "D">>}
    THEN SubSeq(s, 3, Len(s))
    ELSE s

\* re.search(r'S(\d+)E(\d+)', s, re.IGNORECASE), the groups as integers
SeasonEpisode(s) ==
    LET m == ReSearch(s, "S", "E", Len(s), Len(s))
    IN  IF m = None THEN None ELSE <<ToInt(m[1]), ToInt(m[2])>>

\* a start check that excludes every code when start carries no SxxExx
BeforeStartOrUnparsed(cur, st) ==
    st = None \/ (cur[1] < st[1] \/ (cur[1] = st[1] /\ cur[2] < st[2]))

\* if start_match: the two return False of the start check
BeforeStart(cur, st) ==
    st # None /\ (cur[1] < st[1] \/ (cur[1] = st[1] /\ cur[2] < st[2]))

\* an end check that compares the episode numbers whatever the season
AfterEndEpisodeOnly(cur, en) ==
    en # None /\ cur[2] > en[2]

AfterEnd(cur, en) ==
    en # None /\ (cur[1] > en[1] \/ (cur[1] = en[1] /\ cur[2] > en[2]))

\* the range filter as it was before it supported ranges that cross seasons:
\* the episode numbers are compared whatever the season
RangeVerdictEpisodeOnly(episode_code, start, end) ==
    LET cur == SeasonEpisode(StripTag(episode_code))
        st  == SeasonEpisode(StripTag(start))
        en  == SeasonEpisode(StripTag(end))
    IN  IF cur = None THEN "nomatch"
        ELSE IF st # None /\ (cur[1] < st[1] \/ cur[2] < st[2]) THEN "early"
        ELSE IF en # None /\ (cur[1] > en[1] \/ cur[2] > en[2]) THEN "late"
        ELSE "in"

RangeVerdict(episode_code, start, end) ==
    LET cur == SeasonEpisode(StripTag(episode_code))
        st  == SeasonEpisode(StripTag(start))
        en  == SeasonEpisode(StripTag(end))
    IN  IF cur = None THEN "nomatch"
        ELSE IF BeforeStart(cur, st) THEN "early"
        ELSE IF AfterEnd(cur, en) THEN "late"
        ELSE "in"

IsInRange(episode_code, start, end) == RangeVerdict(episode_code, start, end) = "in"

\* the fast scraper searches (?:HD|SD)?S(\d+)E(\d+): the optional tag changes
\* where the match starts, not its groups
FastRangeVerdict(episode_code, start_episode, end_episode) ==
    LET cur == SeasonEpisode(episode_code)
        st  == IF start_episode = None THEN None ELSE SeasonEpisode(start_episode)
        en  == IF end_episode = None THEN None ELSE SeasonEpisode(end_episode)
    IN  IF start_episode = None /\ end_episode = None THEN "in"
        ELSE IF cur = None THEN "nomatch"
        ELSE IF BeforeStart(cur, st) THEN "early"
        ELSE IF AfterEnd(cur, en) THEN "late"
        ELSE "in"

FastIsInRange(episode_code, start_episode, end_episode) ==
    FastRangeVerdict(episode_code, start_episode, end_episode) = "in"

(***************************************************************************)
(* The proof-of-work client: _compute_proof_of_work.                       *)
(*                                                                         *)
(* sha256 is an arbitrary function here.  A challenge string is the        *)
(* sequence of what the search reads of it: element n + 1 is the number of *)
(* leading "0" characters of sha256(challenge + str(n)).hexdigest().       *)
(***************************************************************************)
Full == "dontorrent"
Fast == "dontorrent-fast"

\* the iteration ceiling of the fast scraper (10000000 in the source), scaled
PowCeiling == 1

\* the search of the model stops reading digests here: the nonces the ceiling
\* allows and one beyond it
MaxNonce == PowCeiling + 1

\* the difficulty when the server names none, and the one the full scraper uses
DefaultDifficulty == 4

\* what _compute_proof_of_work returns at the ceiling
PowExhausted == -1

\* a digest falls one "0" short of the default difficulty or meets it
ZeroCounts == {DefaultDifficulty - 1, DefaultDifficulty}

\* the difficulties around the default: met by every digest, met by none
Difficulties == {DefaultDifficulty - 1, DefaultDifficulty + 1}

\* the difficulty the server of the crawl names, when it names one
ServerDifficulties == {DefaultDifficulty + 1}

RECURSIVE SeqsOver(_, _)
SeqsOver(S, n) ==
    IF n = 0 THEN {<<>>}
    ELSE {Append(s, x) : s \in SeqsOver(S, n - 1), x \in S}

\* every challenge, as far as the search reads it
AllChallenges == SeqsOver(ZeroCounts, MaxNonce + 1)

\* the challenges the server of the crawl sends: the one digest that meets
\* the default difficulty is that of nonce 0, or that of the first nonce past
\* the ceiling, or there is none
Challenges ==
    {[n \in 1..(MaxNonce + 1) |->
         IF n = k + 1 THEN DefaultDifficulty ELSE DefaultDifficulty - 1] :
       k \in {0, PowCeiling + 1, MaxNonce + 1}}

LeadingZeros(challenge, nonce) == challenge[nonce + 1]

\* a prefix test that is one zero short of the target
StartsWithShorterTarget(challenge, nonce, difficulty) ==
    challenge[nonce + 1] >= difficulty - 1

\* hash_hex.startswith('0' * difficulty)
StartsWithTarget(challenge, nonce, difficulty) ==
    LeadingZeros(challenge, nonce) >= difficulty

\* one pass of the while loop: whether it returned, and the nonce (returned,
\* or to try next).  Only the fast scraper has the safety limit.
PowIteration(v, challenge, difficulty, nonce) ==
    IF StartsWithTarget(challenge, nonce, difficulty)
    THEN [returned |-> TRUE, nonce |-> nonce]
    ELSE IF v = Fast /\ nonce + 1 > PowCeiling
    THEN [returned |-> TRUE, nonce |-> PowExhausted]
    ELSE [returned |-> FALSE, nonce |-> nonce + 1]

\* the loop from nonce on.  Past MaxNonce the model reads no digest: the
\* search has not returned, and returned is FALSE.
RECURSIVE PowSearch(_, _, _, _)
PowSearch(v, challenge, difficulty, nonce) ==
    IF nonce > MaxNonce THEN [returned |-> FALSE, nonce |-> nonce]
    ELSE LET it == PowIteration(v, challenge, difficulty, nonce)
         IN  IF it.returned THEN it
             ELSE PowSearch(v, challenge, difficulty, it.nonce)

\* _compute_proof_of_work(challenge, difficulty)
ComputeProofOfWork(v, challenge, difficulty) == PowSearch(v, challenge, difficulty, 0)

(***************************************************************************)
(* The server's answers, and what _get_protected_download_url makes of     *)
(* them.  err: requests raised, or the body is no JSON; ok: response.ok;   *)
(* success: the body's success flag (full) or status == "success" (fast).  *)
(***************************************************************************)
GenerateResponses ==
    {[err |-> TRUE, ok |-> FALSE, success |-> FALSE, challenge |-> None,
      has_difficulty |-> FALSE, difficulty |-> DefaultDifficulty]}
    \cup [err : {FALSE}, ok : BOOLEAN, success : BOOLEAN,
          challenge : Challenges \cup {None},
          has_difficulty : {FALSE}, difficulty : {DefaultDifficulty}]
    \cup [err : {FALSE}, ok : BOOLEAN, success : BOOLEAN,
          challenge : Challenges \cup {None},
          has_difficulty : {TRUE}, difficulty : ServerDifficulties]

\* the download url the server holds for a stub
DownloadUrl(stub) == <<"download_url">> \o stub

ValidateResponses(stub) ==
    {[err |-> TRUE, ok |-> FALSE, success |-> FALSE, url |-> None]}
    \cup [err : {FALSE}, ok : BOOLEAN, success : BOOLEAN,
          url : {None, DownloadUrl(stub)}]

\* full, step 1: not response.ok or not result.get('success') raises, and so
\* does result['challenge'] of a body without one
FullChallengeAccepted(resp) ==
    ~resp.err /\ resp.ok /\ resp.success /\ resp.challenge # None

\* fast, step 1: only 'challenge' not in data returns None
FastChallengeAccepted(resp) ==
    ~resp.err /\ resp.challenge # None

\* full, step 3: returns result['download_url']
FullValidateAccepted(resp) ==
    ~resp.err /\ resp.ok /\ resp.success /\ resp.url # None

\* a step 3 that returns the body's download_url whatever its status
ValidateAcceptedAnyStatus(resp) ==
    ~resp.err /\ resp.url # None

\* fast, step 3: status == 'success', and the caller's "if final_link"
FastValidateAccepted(resp) ==
    ~resp.err /\ resp.success /\ resp.url # None

(***************************************************************************)
(* Formats: _normalize_format, _extract_series_format and                  *)
(* _extract_series_format_category of both scrapers.                       *)
(***************************************************************************)
F4K == <<"4", "K">>
F1080p == <<"1", "0", "8", "0", "p">>
F720p == <<"7", "2", "0", "p">>
FSD == <<"S", "D">>

LowerLetters ==
    <<"a", "b", "d", "e", "h", "i", "k", "l", "m", "n", "o", "p", "r", "s", "t", "u", "w", "x", "y">>
UpperLetters ==
    <<"A", "B", "D", "E", "H", "I", "K", "L", "M", "N", "O", "P", "R", "S", "T", "U", "W", "X", "Y">>

\* str.upper(), on the letters the formats are written with
UpperStr(s) ==
    [i \in 1..Len(s) |->
        IF \E k \in 1..Len(LowerLetters) : LowerLetters[k] = s[i]
        THEN UpperLetters[CHOOSE k \in 1..Len(LowerLetters) : LowerLetters[k] = s[i]]
        ELSE s[i]]

\* str.strip(), the blank being the one whitespace character
RECURSIVE Strip(_)
Strip(s) ==
    IF s = <<>> THEN s
    ELSE IF s[1] = " " THEN Strip(Tail(s))
    ELSE IF s[Len(s)] = " " THEN Strip(SubSeq(s, 1, Len(s) - 1))
    ELSE s

\* int(ds) of a run of digits of any length, as far as the thresholds tell
\* numbers apart: exact below 10000, and 10000 or more otherwise
RECURSIVE ToResolution(_)
ToResolution(ds) ==
    IF ds = <<>> THEN 0
    ELSE LET front == ToResolution(SubSeq(ds, 1, Len(ds) - 1))
         IN  IF front >= 10000 THEN front ELSE 10 * front + DigitVal(ds[Len(ds)])

\* t in s
Contains(s, t) ==
    \E i \in 1..(Len(s) - Len(t) + 1) : SubSeq(s, i, i + Len(t) - 1) = t

\* thresholds that answer in the upper case of the exact-match table
BucketUpperCase(resolution) ==
    IF resolution >= 2160 THEN F4K
    ELSE IF resolution >= 1080 THEN <<"1", "0", "8", "0", "P">>
    ELSE IF resolution >= 720 THEN <<"7", "2", "0", "P">>
    ELSE None

\* the thresholds both scrapers map a resolution with; None below 720
Bucket(resolution) ==
    IF resolution >= 2160 THEN F4K
    ELSE IF resolution >= 1080 THEN F1080p
    ELSE IF resolution >= 720 THEN F720p
    ELSE None

\* a normalizer that has the exact-match table only and hands an unknown
\* token back
NormalizeFormatExactOnly(raw_format) ==
    IF raw_format = None THEN FSD
    ELSE LET u == Strip(UpperStr(raw_format))
         IN  IF u = <<"4", "K">> \/ u = <<"2", "1", "6", "0", "P">> THEN F4K
             ELSE IF u = <<"1", "0", "8", "0", "P">> THEN F1080p
             ELSE IF u = <<"7", "2", "0", "P">> THEN F720p
             ELSE u

\* DontorrentScraper._normalize_format.  re.search(r'(\d{3,4})p?') matches
\* at the first run of three digits or more and takes at most four of them.
NormalizeFormat(raw_format) ==
    IF raw_format = None THEN FSD
    ELSE LET u == Strip(UpperStr(raw_format))
             starts == {i \in 1..Len(u) : DigitRun(u, i) >= 3}
             at == MinOf(starts)
             bucket == IF starts = {} THEN None
                       ELSE Bucket(ToInt(SubSeq(u, at, at + Min(DigitRun(u, at), 4) - 1)))
         IN  IF u = <<"4", "K">> \/ u = <<"2", "1", "6", "0", "P">> THEN F4K
             ELSE IF u = <<"1", "0", "8", "0", "P">> THEN F1080p
             ELSE IF u = <<"7", "2", "0", "P">> THEN F720p
             ELSE IF bucket # None THEN bucket
             ELSE IF Contains(u, <<"4", "K">>) \/ Contains(u, <<"U", "H", "D">>) THEN F4K
             ELSE FSD

\* DontorrentFastScraper._normalize_format.  re.search(r'(\d+)[pP]?') takes
\* the whole of the first run of digits.
FastNormalizeFormat(format_str) ==
    IF format_str = None THEN FSD
    ELSE LET format_upper == UpperStr(format_str)
             starts == {i \in 1..Len(format_str) : IsDigitAt(format_str, i)}
             at == MinOf(starts)
             bucket == IF starts = {} THEN None
                       ELSE Bucket(ToResolution(SubSeq(format_str, at,
                                                at + DigitRun(format_str, at) - 1)))
         IN  IF \/ Contains(format_upper, <<"4", "K">>)
                \/ Contains(format_upper, <<"2", "1", "6", "0", "P">>) THEN F4K
             ELSE IF Contains(format_upper, <<"1", "0", "8", "0">>) THEN F1080p
             ELSE IF Contains(format_upper, <<"7", "2", "0">>) THEN F720p
             ELSE IF bucket # None THEN bucket
             ELSE FSD

(***************************************************************************)
(* A page, as far as the format is looked for in it.  Each field is the    *)
(* token the place holds, or None: title and heading hold it in brackets,  *)
(* formato after "Formato:", text elsewhere in the text of the page, href  *)
(* in the name of a .torrent file a link points to.                        *)
(***************************************************************************)
NoPage == [title |-> None, heading |-> None, formato |-> None, text |-> None, href |-> None]

\* DontorrentScraper._extract_series_format: title, h2.descargarTitulo,
\* "Formato:", then 4K|2160p|1080p|720p in soup.get_text()
ExtractSeriesFormat(page) ==
    IF page.title # None THEN UpperStr(page.title)
    ELSE IF page.heading # None THEN UpperStr(page.heading)
    ELSE IF page.formato # None THEN UpperStr(page.formato)
    ELSE IF page.text # None
    THEN IF UpperStr(page.text) = <<"2", "1", "6", "0", "P">> THEN F4K
         ELSE UpperStr(page.text)
    ELSE None

\* DontorrentScraper._extract_series_format_category
ExtractSeriesFormatCategory(page) ==
    LET format_string == NormalizeFormat(ExtractSeriesFormat(page))
    IN  [category |-> IF format_string \in {F4K, F1080p, F720p}
                      THEN <<"H", "D">> ELSE <<"S", "D">>,
         format |-> format_string]

\* formats of DontorrentFastScraper._extract_series_format
FastFormats ==
    <<F4K, <<"2", "1", "6", "0", "p">>, F1080p, F720p,
      <<"H", "D", "R", "i", "p">>, <<"W", "E", "B", "R", "i", "p">>,
      <<"B", "l", "u", "R", "a", "y">>>>

\* soup.get_text(): the text of the page, its title, heading and paragraph
\* included, no href
GetText(page) == {page.title, page.heading, page.formato, page.text} \ {None}

\* DontorrentFastScraper._extract_series_format: the first format of the
\* list that the text holds
FastExtractSeriesFormat(page) ==
    LET found == {k \in 1..Len(FastFormats) :
                     \E t \in GetText(page) : Contains(t, FastFormats[k])}
    IN  IF found = {} THEN None ELSE FastFormats[MinOf(found)]

\* DontorrentFastScraper._extract_series_format_category
FastExtractSeriesFormatCategory(page) ==
    LET format_found == FastExtractSeriesFormat(page)
    IN  IF format_found = None
        THEN [category |-> <<"H", "D">>, format |-> FSD]
        ELSE [category |-> IF UpperStr(format_found) \in
                                {<<"7", "2", "0", "P">>, <<"1", "0", "8", "0", "P">>,
                                 F4K, <<"2", "1", "6", "0", "P">>}
                           THEN <<"H", "D">> ELSE <<"S", "D">>,
              format |-> format_found]

(***************************************************************************)
(* Selection: the sort and the split at the end of scrape                  *)
(***************************************************************************)
\* DontorrentScraper._get_format_priority, on the canonical formats
\* a priority that follows the resolution: 4K first
GetFormatPriorityByResolution(format_str) ==
    CASE format_str = "4K" -> 4
      [] format_str = "1080p" -> 3
      [] format_str = "720p" -> 2
      [] format_str = "SD" -> 1
      [] OTHER -> 0

GetFormatPriority(format_str) ==
    CASE format_str = "720p" -> 4
      [] format_str = "1080p" -> 3
      [] format_str = "4K" -> 2
      [] format_str = "SD" -> 1
      [] OTHER -> 0

\* all_torrents.sort(key=priority, reverse=True): stable
SortByPriority(ts) ==
    LET of(p) == SelectSeq(ts, LAMBDA t : GetFormatPriority(t.format) = p)
    IN  of(4) \o of(3) \o of(2) \o of(1) \o of(0)

\* the first torrent of each status, in order
RECURSIVE UniqueTorrents(_)
UniqueTorrents(ts) ==
    IF ts = <<>> THEN <<>>
    ELSE LET n == Len(ts)
             front == SubSeq(ts, 1, n - 1)
         IN  IF \E j \in 1..(n - 1) : ts[j].status = ts[n].status
             THEN UniqueTorrents(front)
             ELSE Append(UniqueTorrents(front), ts[n])

\* a split that keeps one alternative for a status: the second torrent of
\* each status, in order
RestTorrentsOncePerStatus(ts) ==
    LET second == {n \in 1..Len(ts) :
                     Cardinality({j \in 1..(n - 1) : ts[j].status = ts[n].status}) = 1}
    IN  [k \in 1..Cardinality(second) |->
            ts[CHOOSE n \in second : Cardinality({m \in second : m <= n}) = k]]

\* the torrents whose status was seen before, in order
RECURSIVE RestTorrents(_)
RestTorrents(ts) ==
    IF ts = <<>> THEN <<>>
    ELSE LET n == Len(ts)
             front == SubSeq(ts, 1, n - 1)
         IN  IF \E j \in 1..(n - 1) : ts[j].status = ts[n].status
             THEN Append(RestTorrents(front), ts[n])
             ELSE RestTorrents(front)

\* the order of str on the characters of an episode code
CharOrder == DigitSeq \o <<"D", "E", "H", "S">>

CharRank(c) == CHOOSE i \in 1..Len(CharOrder) : CharOrder[i] = c

RECURSIVE StrLess(_, _)
StrLess(a, b) ==
    IF b = <<>> THEN FALSE
    ELSE IF a = <<>> THEN TRUE
    ELSE IF a[1] = b[1] THEN StrLess(Tail(a), Tail(b))
    ELSE CharRank(a[1]) < CharRank(b[1])

\* torrents.sort(key=lambda x: x['episode_code']): stable
RECURSIVE SortByEpisodeCode(_)
SortByEpisodeCode(ts) ==
    IF ts = <<>> THEN <<>>
    ELSE LET n == Len(ts)
             front == SortByEpisodeCode(SubSeq(ts, 1, n - 1))
             k == Cardinality({i \in 1..(n - 1) :
                     ~StrLess(ts[n].episode_code, front[i].episode_code)})
         IN  SubSeq(front, 1, k) \o <<ts[n]>> \o SubSeq(front, k + 1, n - 1)

\* the dict scrape returns
ScrapeResult(v, all) ==
    IF v = Full
    THEN LET sorted == SortByPriority(all)
         IN  [returned |-> TRUE,
              torrents |-> UniqueTorrents(sorted),
              torrents_rest |-> RestTorrents(sorted),
              count |-> Len(UniqueTorrents(sorted)),
              count_total |-> Len(sorted),
              count_rest |-> Len(RestTorrents(sorted))]
    ELSE [returned |-> TRUE,
          torrents |-> SortByEpisodeCode(all),
          count |-> Len(all)]

\* nothing was found by _search_series
NothingFound(v) ==
    [returned |-> TRUE, torrents |-> <<>>, count |-> 0]

(***************************************************************************)
(* The crawl: scrape, _get_episodes, _get_best_torrent_for_episode and     *)
(* _get_protected_download_url of both scrapers.  An action is the code    *)
(* that runs between two answers of the site.                              *)
(***************************************************************************)
MaxPages == 2
MaxRows == 2
MaxLinks == 2

QualityTags == {<<"H", "D">>, <<"S", "D">>}

\* a string that carries no SxxExx
Unparsable == <<"T", "B", "D">>

StartEpisodes ==
    {<<"H", "D", "S", "0", "1", "E", "0", "2">>,
     Unparsable}

EndEpisodes ==
    {<<"S", "0", "1", "E", "0", "2">>,
     <<"S", "0", "2", "E", "0", "1">>}

\* the criteria of a request; a key that is missing, or empty, is None
Criteria ==
    [base_url : {None, <<"base_url">>}, serie_name : {None, <<"serie_name">>},
     start_episode : StartEpisodes \cup {None}, end_episode : EndEpisodes \cup {None}]

\* not all([base_url, serie_name, start_episode, end_episode])
Lacking(c) ==
    c.base_url = None \/ c.serie_name = None \/ c.start_episode = None \/ c.end_episode = None

\* what DontorrentScraper.scrape returns for criteria that lack a parameter
MissingParameters == [returned |-> TRUE, error |-> TRUE, torrents |-> <<>>]

\* the first cell of a row (full), the text of an episode link (fast)
RowLabels ==
    {<<"S", "0", "1", "E", "0", "1">>,
     <<"1", "x", "0", "2">>,
     <<"s", "1", "e", "1", "0", "0">>,
     <<"S", "0", "2", "E", "0", "1">>,
     Unparsable}

\* the pages of the crawl: no quality token, and 720p in the heading with
\* 4K elsewhere in the text
CrawlPages ==
    {NoPage,
     [NoPage EXCEPT !.heading = F720p, !.text = F4K]}

\* a canonical format as the torrents of the crawl carry it
FormatName(f) ==
    CASE f = F4K -> "4K"
      [] f = F1080p -> "1080p"
      [] f = F720p -> "720p"
      [] f = FSD -> "SD"

\* text: soup.get_text() of the episode page (fast)
NoEpisode ==
    [code |-> None, status |-> None, format |-> "", text |-> {},
     attempts |-> <<>>, attempt |-> 0]

\* nonce: what the nonce search returned; ch: the place in sent of the
\* generate request; cleared (history): the answer to it was response.ok and
\* reported success; failed (history): the first row of the page whose
\* exchange ended without a link, 0 when there is none
NoExchange == [nonce |-> 0, ch |-> 0, cleared |-> FALSE, failed |-> 0]

\* DontorrentScraper._extract_series_format_category: the HD/SD category
FormatCategory(format_string) ==
    IF format_string \in {"4K", "1080p", "720p"} THEN <<"H", "D">> ELSE <<"S", "D">>

\* DontorrentFastScraper._extract_season_from_episode:
\* re.match(r'(?:HD|SD)?S(\d+)E\d+', episode_code.upper()); <<season>>, or
\* None where the source raises ValueError
ExtractSeasonFromEpisode(episode_code) ==
    LET n == Len(episode_code)
        tagged == n >= 2 /\ <<Upper(episode_code[1]), Upper(episode_code[2])>> \in QualityTags
        m == ReGroupsAt(episode_code, IF tagged THEN 3 ELSE 1, "S", "E", n, n)
    IN  IF m = None THEN None ELSE <<ToInt(m[1])>>

\* the row of a table as the full scraper reads it: the label of the first
\* cell, and what the second cell holds
FullRows == [label : RowLabels, link : {"nocols", "noanchor", "nocid", "badcid", "ok"}]

\* the way a row leaves the loop body of DontorrentScraper._get_episodes
\* before any request: the continue it takes, "raise" when int(content_id)
\* raises inside the try, "generate" when the challenge request is sent
FullRowVerdict(r, status, start, end) ==
    IF r.link = "nocols" THEN "columns"
    ELSE IF status = None THEN "label"
    ELSE IF ~IsValidStatusFormat(status) THEN "format"
    ELSE IF ~IsInRange(status, start, end) THEN "range"
    ELSE IF r.link = "noanchor" THEN "anchor"
    ELSE IF r.link = "nocid" THEN "content_id"
    ELSE IF r.link = "badcid" THEN "raise"
    ELSE "generate"

\* the same for an episode link of DontorrentFastScraper._get_episodes;
\* "episode" when _get_best_torrent_for_episode is called
FastRowVerdict(episode_code, start, end) ==
    IF episode_code = None THEN "label"
    ELSE IF ~FastIsInRange(episode_code, start, end) THEN "range"
    ELSE "episode"

PRIORITY_ORDER == <<"720P", "1080P", "4K", "SD">>

\* normalized_format.upper()
UpperFormat(f) ==
    CASE f = "720p" -> "720P"
      [] f = "1080p" -> "1080P"
      [] OTHER -> f

\* the download links _get_best_torrent_for_episode resolves while every
\* exchange fails: for each target format, each link if the page's format is
\* the target; then download_links[0]
LinkAttempts(format, n) ==
    LET links == [k \in 1..n |-> k]
        tier(t) == IF UpperFormat(format) = PRIORITY_ORDER[t] THEN links ELSE <<>>
    IN  tier(1) \o tier(2) \o tier(3) \o tier(4) \o <<1>>

\* a stub: the page, the row and the download link of the row
CurStub == <<pages.page, row, ep.attempts[ep.attempt]>>

GenerateRequest(stub, code) ==
    [kind |-> "generate", stub |-> stub, code |-> code]

\* ch: the place in sent of the generate request that obtained the challenge
ValidateRequest(stub, ch) ==
    [kind |-> "validate", stub |-> stub, ch |-> ch]

Init ==
    /\ variant \in {Full, Fast}
    /\ criteria \in Criteria
    /\ pc = "scrape"
    /\ pages = [page |-> 0, last |-> 0, format |-> ""]
    /\ row = 0
    /\ ep = NoEpisode
    /\ pow = NoExchange
    /\ torrents = <<>>
    /\ all_torrents = <<>>
    /\ result = [returned |-> FALSE]
    /\ sent = <<>>
    /\ call = [fn |-> "none"]
    /\ ret = [done |-> FALSE]
    /\ ServeIdle

\* _get_episodes returns found: scrape extends its list, goes to the next
\* page or, after the last, sorts and returns
EndPage(found) ==
    LET all == all_torrents \o found
    IN  /\ all_torrents' = all
        /\ torrents' = <<>>
        /\ ep' = NoEpisode
        /\ pow' = NoExchange
        /\ IF pages.page < pages.last
           THEN /\ pages' = [pages EXCEPT !.page = @ + 1, !.format = ""]
                /\ pc' = "page"
                /\ UNCHANGED result
           ELSE /\ pc' = "done"
                /\ result' = ScrapeResult(variant, all)
                /\ UNCHANGED pages

\* a failure of the page that is not caught in _get_episodes: it reaches the
\* handler of scrape, which returns an error and no torrents
PageFailedAbortsScrape ==
    /\ all_torrents' = <<>>
    /\ torrents' = <<>>
    /\ ep' = NoEpisode
    /\ pow' = NoExchange
    /\ pc' = "done"
    /\ result' = [returned |-> TRUE, error |-> TRUE, torrents |-> <<>>, count |-> 0]
    /\ UNCHANGED pages

\* the page could not be fetched or holds no table: _get_episodes catches
\* the exception, or finds nothing, and returns []
PageFailed == EndPage(<<>>)

\* DontorrentScraper.scrape up to the first page: _search_series found n series
FullScrape ==
    /\ pc = "scrape" /\ variant = Full
    /\ \E n \in 0..MaxPages :
          IF Lacking(criteria)
          THEN /\ pc' = "done"
               /\ result' = MissingParameters
               /\ UNCHANGED pages
          ELSE IF n = 0
          THEN /\ pc' = "done"
               /\ result' = NothingFound(Full)
               /\ UNCHANGED pages
          ELSE /\ pc' = "page"
               /\ pages' = [page |-> 1, last |-> n, format |-> ""]
               /\ UNCHANGED result
    /\ UNCHANGED <<variant, criteria, row, ep, pow, torrents, all_torrents,
                   sent, call, ret, serveVars>>

\* DontorrentFastScraper.scrape up to the first season page
FastScrape ==
    /\ pc = "scrape" /\ variant = Fast
    /\ LET s == ExtractSeasonFromEpisode(criteria.start_episode)
           e == ExtractSeasonFromEpisode(criteria.end_episode)
       IN  IF Lacking(criteria) \/ s = None \/ e = None     \* ValueError
           THEN /\ pc' = "raised"
                /\ UNCHANGED <<pages, result>>
           ELSE \E found \in BOOLEAN :
                  IF ~found
                  THEN /\ pc' = "done"
                       /\ result' = NothingFound(Fast)
                       /\ UNCHANGED pages
                  ELSE IF s[1] > e[1]
                  THEN /\ pc' = "done"
                       /\ result' = ScrapeResult(Fast, <<>>)
                       /\ UNCHANGED pages
                  ELSE /\ pc' = "page"
                       /\ pages' = [page |-> s[1], last |-> e[1], format |-> ""]
                       /\ UNCHANGED result
    /\ UNCHANGED <<variant, criteria, row, ep, pow, torrents, all_torrents,
                   sent, call, ret, serveVars>>

\* DontorrentScraper._get_episodes up to the loop over the rows
FullGetEpisodes ==
    /\ pc = "page" /\ variant = Full
    /\ \/ /\ PageFailed                 \* the request or the table failed
          /\ UNCHANGED <<variant, criteria, row, sent, call, ret, serveVars>>
       \/ \E page \in CrawlPages :
             /\ pages' = [pages EXCEPT
                            !.format = FormatName(ExtractSeriesFormatCategory(page).format)]
             /\ pc' = "rows"
             /\ UNCHANGED <<variant, criteria, row, ep, pow, torrents,
                            all_torrents, result, sent, call, ret, serveVars>>

\* DontorrentFastScraper._get_episodes up to the loop over the episode links
FastGetEpisodes ==
    /\ pc = "page" /\ variant = Fast
    /\ \/ /\ PageFailed                 \* get_html failed
          /\ UNCHANGED <<variant, criteria, row, sent, call, ret, serveVars>>
       \/ /\ pc' = "rows"
          /\ UNCHANGED <<variant, criteria, pages, row, ep, pow, torrents,
                         all_torrents, result, sent, call, ret, serveVars>>

\* one row of the table, up to the challenge request
FullRow ==
    /\ pc = "rows" /\ variant = Full /\ row < MaxRows
    /\ \E r \in FullRows :
          LET status == Tagged(FormatCategory(pages.format), ExtractEpisodeCode(r.label))
              v == FullRowVerdict(r, status, criteria.start_episode, criteria.end_episode)
          IN  /\ row' = row + 1
              /\ IF v = "generate"
                 THEN /\ ep' = [NoEpisode EXCEPT !.code = status, !.status = status,
                                                 !.format = pages.format,
                                                 !.attempts = <<1>>, !.attempt = 1]
                      /\ sent' = Append(sent, GenerateRequest(<<pages.page, row + 1, 1>>, status))
                      /\ pc' = "generate"
                 ELSE UNCHANGED <<ep, sent, pc>>
    /\ UNCHANGED <<variant, criteria, pages, pow, torrents, all_torrents,
                   result, call, ret, serveVars>>

\* one episode link of the season page, up to the request of its page
FastRow ==
    /\ pc = "rows" /\ variant = Fast /\ row < MaxRows
    /\ \E label \in RowLabels :
          LET code == FastExtractEpisodeCode(label)
              v == FastRowVerdict(code, criteria.start_episode, criteria.end_episode)
          IN  /\ row' = row + 1
              /\ IF v = "episode"
                 THEN /\ ep' = [NoEpisode EXCEPT !.code = code, !.status = label]
                      /\ pc' = "episode"
                 ELSE UNCHANGED <<ep, pc>>
    /\ UNCHANGED <<variant, criteria, pages, pow, torrents, all_torrents,
                   result, sent, call, ret, serveVars>>

\* the loop over the rows is over
EndRows ==
    /\ pc = "rows"
    /\ EndPage(IF variant = Fast THEN SortByEpisodeCode(torrents) ELSE torrents)
    /\ UNCHANGED <<variant, criteria, row, sent, call, ret, serveVars>>

\* _get_best_torrent_for_episode up to its first challenge request
FastBestTorrent ==
    /\ pc = "episode"
    /\ \/ /\ pc' = "rows"               \* get_html failed, or no download link
          /\ ep' = NoEpisode
          /\ UNCHANGED sent
       \/ \E n \in 1..MaxLinks, page \in CrawlPages :
             LET f == FormatName(FastNormalizeFormat(
                         FastExtractSeriesFormatCategory(page).format))
             IN  /\ ep' = [ep EXCEPT !.format = f, !.text = GetText(page),
                                     !.attempts = LinkAttempts(f, n), !.attempt = 1]
                 /\ sent' = Append(sent, GenerateRequest(
                               <<pages.page, row, LinkAttempts(f, n)[1]>>, ep.code))
                 /\ pc' = "generate"
    /\ UNCHANGED <<variant, criteria, pages, row, pow, torrents, all_torrents,
                   result, call, ret, serveVars>>

\* a failure that is caught around the loop instead of inside it: the
\* torrents of the page are lost
ExchangeFailedDropsPage ==
    /\ pow' = [NoExchange EXCEPT !.failed = IF pow.failed = 0 THEN row ELSE pow.failed]
    /\ ep' = NoEpisode
    /\ pc' = "rows"
    /\ sent' = <<>>
    /\ torrents' = <<>>

\* the exchange ended without a link.  The full scraper logs the exception
\* and goes to the next row; the fast one goes on with its loops.
ExchangeFailed ==
    /\ IF variant = Fast /\ ep.attempt < Len(ep.attempts)
       THEN /\ pow' = [NoExchange EXCEPT !.failed = pow.failed]
            /\ ep' = [ep EXCEPT !.attempt = @ + 1]
            /\ sent' = Append(sent, GenerateRequest(
                          <<pages.page, row, ep.attempts[ep.attempt + 1]>>, ep.code))
            /\ pc' = "generate"
       ELSE /\ pow' = [NoExchange EXCEPT
                          !.failed = IF pow.failed = 0 THEN row ELSE pow.failed]
            /\ ep' = NoEpisode
            /\ pc' = "rows"
            /\ sent' = <<>>
    /\ UNCHANGED torrents

\* the exchange returned a link: the torrent of the row is appended.  stub
\* and proof are history: the stub the link was resolved for and the validate
\* response it was taken from.
ExchangeResolved(resp) ==
    /\ torrents' = Append(torrents,
          [status |-> ep.status, episode_code |-> ep.code, format |-> ep.format,
           link |-> resp.url, stub |-> CurStub,
           proof |-> [success |-> resp.success, url |-> resp.url]])
    /\ pc' = "rows"
    /\ ep' = NoEpisode
    /\ pow' = [NoExchange EXCEPT !.failed = pow.failed]
    /\ sent' = <<>>

\* steps 1 and 2 of _get_protected_download_url: the answer to the generate
\* request, the nonce search and, when it returns, the validate request
GenerateResponse ==
    /\ pc = "generate"
    /\ \E resp \in GenerateResponses :
          IF (IF variant = Full THEN FullChallengeAccepted(resp) ELSE FastChallengeAccepted(resp))
          THEN LET difficulty == IF variant = Fast /\ resp.has_difficulty
                                 THEN resp.difficulty ELSE DefaultDifficulty
                   found == ComputeProofOfWork(variant, resp.challenge, difficulty)
               IN  /\ pow' = [nonce |-> found.nonce, ch |-> Len(sent),
                               cleared |-> resp.ok /\ resp.success,
                               failed |-> pow.failed]
                   /\ IF found.returned
                      THEN /\ pc' = "validate"
                           /\ sent' = Append(sent, ValidateRequest(CurStub, Len(sent)))
                      ELSE /\ pc' = "searching"
                           /\ UNCHANGED sent
                   /\ UNCHANGED <<ep, torrents>>
          ELSE ExchangeFailed
    /\ UNCHANGED <<variant, criteria, pages, row, all_torrents, result, call, ret, serveVars>>

\* step 3: the answer to the validate request
ValidateResponse ==
    /\ pc = "validate"
    /\ \E resp \in ValidateResponses(CurStub) :
          IF (IF variant = Full THEN FullValidateAccepted(resp) ELSE FastValidateAccepted(resp))
          THEN ExchangeResolved(resp)
          ELSE ExchangeFailed
    /\ UNCHANGED <<variant, criteria, pages, row, all_torrents, result, call, ret, serveVars>>

Next ==
    \/ FullScrape
    \/ FastScrape
    \/ FullGetEpisodes
    \/ FastGetEpisodes
    \/ FullRow
    \/ FastRow
    \/ EndRows
    \/ FastBestTorrent
    \/ GenerateResponse
    \/ ValidateResponse

Spec == Init /\ [][Next]_vars

(***************************************************************************)
(* SpecCodes: the canonicalizer and the range filter as pure functions.    *)
(* Init draws the arguments, the one action of each function applies it.   *)
(***************************************************************************)
MaxLabelLen == 5
MaxSeason == 3

LabelChars == {"s", "E", "x", "0", "1"}
EpisodeNums == {1, 2, 3, 9, 10, 11}

Labels == UNION {SeqsOver(LabelChars, n) : n \in 1..MaxLabelLen}

\* f"{tag}S{season:0{w}d}E{episode:0{w}d}", the way a code reaches the filter
FormatCode(tag, season, episode, w) ==
    LET pad(n) == IF w = 2 THEN Zfill2(Dec(n)) ELSE Dec(n)
    IN  tag \o <<"S">> \o pad(season) \o <<"E">> \o pad(episode)

SeasonEpisodePairs == (1..MaxSeason) \X EpisodeNums

\* a range bound as the caller types it, with the pair of numbers it was typed from
RangeBounds(tags, widths) ==
    {[text |-> FormatCode(t, p[1], p[2], w), pair |-> p] :
        t \in tags, p \in SeasonEpisodePairs, w \in widths}
    \cup {[text |-> Unparsable, pair |-> None]}

\* no scrape runs while the functions are applied
CrawlIdle ==
    /\ variant = "none"
    /\ criteria = [base_url |-> None, serie_name |-> None,
                   start_episode |-> None, end_episode |-> None]
    /\ pc = "idle"
    /\ pages = [page |-> 0, last |-> 0, format |-> ""]
    /\ row = 0
    /\ ep = NoEpisode
    /\ pow = NoExchange
    /\ torrents = <<>>
    /\ all_torrents = <<>>
    /\ result = [returned |-> FALSE]
    /\ sent = <<>>

InitCodes ==
    /\ CrawlIdle /\ ServeIdle
    /\ ret = [done |-> FALSE]
    /\ \/ \E l \in Labels, t \in QualityTags :
            call = [fn |-> "canonicalize", label |-> l, tag |-> t]
       \/ \E p \in SeasonEpisodePairs, t \in {<<"H", "D">>},
             s \in RangeBounds({<<>>, <<"H", "D">>}, {2}),
             e \in RangeBounds({<<>>}, {1, 2}) :
            call = [fn |-> "in_range", code |-> FormatCode(t, p[1], p[2], 2),
                    pair |-> p, start |-> s, end |-> e]

\* canonicalize of the spec: _extract_episode_code, then the quality tag in
\* front; the fast scraper's inline extraction beside it
Canonicalize ==
    /\ call.fn = "canonicalize"
    /\ ~ret.done
    /\ ret' = [done |-> TRUE,
               code |-> Tagged(call.tag, ExtractEpisodeCode(call.label)),
               fast |-> FastExtractEpisodeCode(call.label)]
    /\ UNCHANGED <<call, crawlVars, serveVars>>

InRange ==
    /\ call.fn = "in_range"
    /\ ~ret.done
    /\ ret' = [done |-> TRUE,
               full |-> RangeVerdict(call.code, call.start.text, call.end.text),
               fast |-> FastRangeVerdict(call.code, call.start.text, call.end.text)]
    /\ UNCHANGED <<call, crawlVars, serveVars>>

NextCodes == Canonicalize \/ InRange

SpecCodes == InitCodes /\ [][NextCodes]_vars

(***************************************************************************)
(* Claims about the range filter and the canonicalizer (SpecCodes)         *)
(***************************************************************************)
\* (season, episode) pairs in lexicographic order
LexLess(p, q) == p[1] < q[1] \/ (p[1] = q[1] /\ p[2] < q[2])

LexLeq(p, q) == p = q \/ LexLess(p, q)

RangeCalled == ret.done /\ call.fn = "in_range"

S01E10 == <<"S", "0", "1", "E", "1", "0">>
S02E02 == <<"S", "0", "2", "E", "0", "2">>

\* C8: when code, start and end all carry a season/episode pattern, both
\* scrapers' in_range is true exactly when start <= code <= end in the
\* lexicographic order of (season, episode); with start=S01E10 and end=S02E02
\* that includes S01E10, S01E11, S02E01, S02E02 and excludes S01E09, S02E03.
C8_InRangeIsLexicographic ==
    /\ (RangeCalled /\ call.start.pair # None /\ call.end.pair # None) =>
          LET inside == LexLeq(call.start.pair, call.pair) /\ LexLeq(call.pair, call.end.pair)
          IN  /\ (ret.full = "in") <=> inside
              /\ (ret.fast = "in") <=> inside
    /\ (RangeCalled /\ call.start.text = S01E10 /\ call.end.text = S02E02) =>
          /\ call.pair \in {<<1, 10>>, <<1, 11>>, <<2, 1>>, <<2, 2>>} =>
                ret.full = "in" /\ ret.fast = "in"
          /\ call.pair \in {<<1, 9>>, <<2, 3>>} =>
                ret.full # "in" /\ ret.fast # "in"

\* a range that crosses a season boundary, and a code of the later season
\* whose episode number is below start's
C8_Witness ==
    /\ RangeCalled
    /\ call.start.text = S01E10 /\ call.end.text = S02E02
    /\ call.pair = <<2, 1>>
    /\ ret.full = "in" /\ ret.fast = "in"

CodeOf(p) == FormatCode(<<"H", "D">>, p[1], p[2], 2)

\* C9: for fixed start and end, when a code is excluded as too early every
\* code of lower (season, episode) rank is excluded too, and when it is
\* excluded as too late every code of higher rank is excluded too.
C9_InRangeMonotonic ==
    RangeCalled =>
        /\ ret.full = "early" =>
              \A q \in SeasonEpisodePairs : LexLess(q, call.pair) =>
                  ~IsInRange(CodeOf(q), call.start.text, call.end.text)
        /\ ret.full = "late" =>
              \A q \in SeasonEpisodePairs : LexLess(call.pair, q) =>
                  ~IsInRange(CodeOf(q), call.start.text, call.end.text)
        /\ ret.fast = "early" =>
              \A q \in SeasonEpisodePairs : LexLess(q, call.pair) =>
                  ~FastIsInRange(CodeOf(q), call.start.text, call.end.text)
        /\ ret.fast = "late" =>
              \A q \in SeasonEpisodePairs : LexLess(call.pair, q) =>
                  ~FastIsInRange(CodeOf(q), call.start.text, call.end.text)

\* a code excluded as too early that has lower-ranked codes with higher
\* episode numbers (those of the season before)
C9_Witness ==
    /\ RangeCalled
    /\ ret.full = "early" /\ ret.fast = "early"
    /\ call.pair = <<2, 1>>

\* the label carries S(\d{1,2})E(\d{1,3}) or (\d{1,2})x(\d{1,3}), in any case
LabelMatches(l) ==
    \E i \in 1..Len(l), n \in 1..2, m \in 1..3 :
        \/ /\ IsLetterAt(l, i, "S")
           /\ \A k \in 1..n : IsDigitAt(l, i + k)
           /\ IsLetterAt(l, i + n + 1, "E")
           /\ \A k \in 1..m : IsDigitAt(l, i + n + 1 + k)
        \/ /\ \A k \in 0..(n - 1) : IsDigitAt(l, i + k)
           /\ IsLetterAt(l, i + n, "x")
           /\ \A k \in 1..m : IsDigitAt(l, i + n + k)

\* C10: a label that matches one of the two patterns canonicalizes, with a
\* quality tag, to a code of the form ^(HD|SD)S\d{2}E\d{2}$; a label that
\* matches neither yields null.
C10_CanonicalWellFormed ==
    (ret.done /\ call.fn = "canonicalize") =>
        IF LabelMatches(call.label)
        THEN IsValidStatusFormat(ret.code)
        ELSE ret.code = None

(***************************************************************************)
(* SpecPow: the nonce search of _compute_proof_of_work, pass by pass, for  *)
(* every challenge and the difficulties around the default.                *)
(***************************************************************************)
InitPow ==
    /\ CrawlIdle /\ ServeIdle
    /\ \E v \in {Full, Fast}, c \in AllChallenges,
          d \in Difficulties \cup {DefaultDifficulty} :
          call = [fn |-> "compute_proof_of_work", variant |-> v,
                  challenge |-> c, difficulty |-> d]
    /\ ret = [done |-> FALSE, nonce |-> 0]

\* one pass of the while loop
PowStep ==
    /\ call.fn = "compute_proof_of_work"
    /\ ~ret.done
    /\ ret.nonce <= MaxNonce
    /\ LET it == PowIteration(call.variant, call.challenge, call.difficulty, ret.nonce)
       IN  ret' = [done |-> it.returned, nonce |-> it.nonce]
    /\ UNCHANGED <<call, crawlVars, serveVars>>

SpecPow == InitPow /\ [][PowStep]_vars

(***************************************************************************)
(* Claims about the nonce search (SpecPow)                                 *)
(***************************************************************************)
PowCalled == call.fn = "compute_proof_of_work"

\* the digest of challenge + str(n) starts with d zero characters
MeetsDifficulty(challenge, n, d) == LeadingZeros(challenge, n) >= d

\* C4: the nonce the search returns makes the digest of challenge + str(nonce)
\* start with d zeros and no smaller non-negative integer does; the value
\* returned at the ceiling is no nonce (it is negative), and it is returned
\* only when no nonce up to the ceiling meets the difficulty.
C4_NonceIsLeast ==
    (PowCalled /\ ret.done) =>
        IF ret.nonce >= 0
        THEN /\ MeetsDifficulty(call.challenge, ret.nonce, call.difficulty)
             /\ \A m \in 0..(ret.nonce - 1) :
                   ~MeetsDifficulty(call.challenge, m, call.difficulty)
        ELSE /\ ret.nonce = PowExhausted
             /\ call.variant = Fast
             /\ \A m \in 0..PowCeiling :
                   ~MeetsDifficulty(call.challenge, m, call.difficulty)

\* the search returned a nonce after digests that did not meet the difficulty
C4_Witness ==
    /\ PowCalled /\ ret.done
    /\ ret.nonce = PowCeiling
    /\ call.difficulty = DefaultDifficulty
    /\ MeetsDifficulty(call.challenge, ret.nonce, call.difficulty)

\* C5: in both scrapers the nonce search stops at the ceiling: while it has
\* not returned, the nonce it is about to try is within the ceiling.
C5_SearchStopsAtCeiling ==
    (PowCalled /\ ~ret.done) => ret.nonce <= PowCeiling

(***************************************************************************)
(* Claims about the crawl (Spec)                                           *)
(***************************************************************************)
\* ^(HD|SD)?S\d{2}E\d{2}$
CodeFormatOk(code) ==
    LET c == StripTag(code)
    IN  /\ Len(c) = 6
        /\ c[1] = "S" /\ c[2] \in Digits /\ c[3] \in Digits
        /\ c[4] = "E" /\ c[5] \in Digits /\ c[6] \in Digits

\* the code lies outside [start, end]; a bound that carries no pattern
\* bounds nothing
OutsideRange(code, start, end) ==
    LET cur == SeasonEpisode(StripTag(code))
        st  == SeasonEpisode(StripTag(start))
        en  == SeasonEpisode(StripTag(end))
    IN  \/ cur = None
        \/ st # None /\ LexLess(cur, st)
        \/ en # None /\ LexLess(en, cur)

\* C1: in both scrapers, every challenge request is for a row whose code
\* passed the format check and lies within [start, end].
C1_ResolverGated ==
    \A i \in 1..Len(sent) :
        sent[i].kind = "generate" =>
            /\ CodeFormatOk(sent[i].code)
            /\ ~OutsideRange(sent[i].code, criteria.start_episode, criteria.end_episode)

\* C2: the nonce search starts, and the validate request is sent, only after
\* the challenge request was answered successfully; a failed challenge
\* request ends the resolution.
C2_SolvedOnlyAfterChallenged ==
    pc \in {"searching", "validate"} => pow.cleared

\* every candidate the scrape holds or has returned
Candidates ==
    LET seqs == <<torrents, all_torrents>>
                \o (IF result.returned THEN <<result.torrents>> ELSE <<>>)
                \o (IF result.returned /\ variant = Full /\ "torrents_rest" \in DOMAIN result
                    THEN <<result.torrents_rest>> ELSE <<>>)
    IN  UNION {{seqs[k][i] : i \in 1..Len(seqs[k])} : k \in 1..Len(seqs)}

\* C3: every candidate, up to the result of the scrape, carries the link of
\* a validate response that reported success for the candidate's own stub.
C3_LinksAreResolved ==
    \A t \in Candidates :
        /\ t.proof.success
        /\ t.link = t.proof.url
        /\ t.link = DownloadUrl(t.stub)

\* a scrape returned a candidate
C3_Witness ==
    /\ pc = "done" /\ result.returned
    /\ Len(result.torrents) > 0
    /\ result.torrents[1].proof.success

\* C6: once the nonce search has hit the ceiling no validate request is
\* sent for the challenge: the resolution has failed.
C6_NoValidateAfterCeiling ==
    pow.nonce = PowExhausted => pc # "validate"

\* C7: within one scrape no stub is put through the exchange twice, and no
\* challenge is submitted in two validate requests.
C7_StubExchangedOnce ==
    \A i, j \in 1..Len(sent) :
        i < j =>
            /\ (sent[i].kind = "generate" /\ sent[j].kind = "generate") =>
                  sent[i].stub # sent[j].stub
            /\ (sent[i].kind = "validate" /\ sent[j].kind = "validate") =>
                  sent[i].ch # sent[j].ch

(***************************************************************************)
(* SpecFormats: _normalize_format, _extract_series_format and              *)
(* _extract_series_format_category of both scrapers as pure functions.     *)
(***************************************************************************)
MaxPieces == 3

\* what a raw format is written with
Pieces ==
    {<<"4", "K">>, <<"4", "k">>, <<"U", "H", "D">>, <<"S", "D">>,
     <<"2", "1", "6", "0">>, <<"1", "0", "8", "0">>, <<"7", "2", "0">>,
     <<"4", "8", "0">>, <<"p">>, <<"P">>, <<" ">>, <<"x">>, <<"1">>, <<"0">>}

RECURSIVE Concat(_)
Concat(ps) == IF ps = <<>> THEN <<>> ELSE ps[1] \o Concat(Tail(ps))

\* the tokens a place of a page holds
PageTokens == {None, F720p, F4K}

Pages ==
    [title : PageTokens, heading : PageTokens, formato : PageTokens,
     text : PageTokens, href : PageTokens]

InitFormats ==
    /\ CrawlIdle /\ ServeIdle
    /\ ret = [done |-> FALSE]
    /\ \/ \E n \in 0..MaxPieces : \E ps \in [1..n -> Pieces] :
            call = [fn |-> "normalize_format", raw |-> Concat(ps)]
       \/ \E page \in Pages, fn \in {"extract_series_format",
                                     "extract_series_format_category"} :
            call = [fn |-> fn, page |-> page]

\* _normalize_format(raw), and _normalize_format of what it returned
Normalize ==
    /\ call.fn = "normalize_format"
    /\ ~ret.done
    /\ ret' = [done |-> TRUE,
               full |-> NormalizeFormat(call.raw),
               fast |-> FastNormalizeFormat(call.raw),
               full_again |-> NormalizeFormat(NormalizeFormat(call.raw)),
               fast_again |-> FastNormalizeFormat(FastNormalizeFormat(call.raw))]
    /\ UNCHANGED <<call, crawlVars, serveVars>>

ExtractFormat ==
    /\ call.fn = "extract_series_format"
    /\ ~ret.done
    /\ ret' = [done |-> TRUE,
               full |-> ExtractSeriesFormat(call.page),
               fast |-> FastExtractSeriesFormat(call.page)]
    /\ UNCHANGED <<call, crawlVars, serveVars>>

\* the category and the format a candidate of the page gets: the fast
\* scraper's caller normalizes the format it is handed
ExtractFormatCategory ==
    /\ call.fn = "extract_series_format_category"
    /\ ~ret.done
    /\ ret' = [done |-> TRUE,
               full |-> ExtractSeriesFormatCategory(call.page),
               fast |-> LET c == FastExtractSeriesFormatCategory(call.page)
                        IN  [category |-> c.category,
                             format |-> FastNormalizeFormat(c.format)]]
    /\ UNCHANGED <<call, crawlVars, serveVars>>

NextFormats == Normalize \/ ExtractFormat \/ ExtractFormatCategory

SpecFormats == InitFormats /\ [][NextFormats]_vars

(***************************************************************************)
(* Claims about the formats (SpecFormats)                                  *)
(***************************************************************************)
CanonicalFormats == {F4K, F1080p, F720p, FSD}

NormalizeCalled == ret.done /\ call.fn = "normalize_format"

\* C12: in both scrapers normalize(normalize(x)) = normalize(x), and a
\* canonical value (4K, 1080p, 720p, SD) is returned unchanged.
C12_NormalizeIdempotent ==
    NormalizeCalled =>
        /\ ret.full_again = ret.full
        /\ ret.fast_again = ret.fast
        /\ call.raw \in CanonicalFormats => ret.full = call.raw /\ ret.fast = call.raw

\* a number that is no canonical value was bucketed
C12_Witness ==
    /\ NormalizeCalled
    /\ call.raw = <<"1", "4", "8", "0", "P">>
    /\ ret.full = F1080p /\ ret.full_again = F1080p
    /\ ret.fast = F1080p /\ ret.fast_again = F1080p

\* the token holds no digit and neither 4K nor UHD
Unrecognized(raw) ==
    /\ \A i \in 1..Len(raw) : raw[i] \notin Digits
    /\ ~Contains(UpperStr(raw), <<"U", "H", "D">>)

\* C13: in both scrapers normalize returns one of 4K, 1080p, 720p, SD
\* whatever the input; null, the empty string and a token that is not
\* recognized give SD.
C13_NormalizeInCanonicalSet ==
    NormalizeCalled =>
        /\ ret.full \in CanonicalFormats
        /\ ret.fast \in CanonicalFormats
        /\ (call.raw = None \/ Unrecognized(call.raw)) =>
              ret.full = FSD /\ ret.fast = FSD

\* a token that is not recognized was given
C13_Witness ==
    /\ NormalizeCalled
    /\ call.raw = <<"x", "p", " ">>
    /\ ret.full = FSD /\ ret.fast = FSD

\* the staged rule: the exact-match table, then a number of three or four
\* digits bucketed by threshold, then the literal 4K or UHD, then SD
Staged(raw) ==
    LET token == Strip(UpperStr(raw))
        starts == {i \in 1..Len(token) : DigitRun(token, i) >= 3}
        number == LET at == MinOf(starts)
                  IN  ToInt(SubSeq(token, at, at + Min(DigitRun(token, at), 4) - 1))
    IN  IF token \in {<<"4", "K">>, <<"2", "1", "6", "0", "P">>} THEN F4K
        ELSE IF token = <<"1", "0", "8", "0", "P">> THEN F1080p
        ELSE IF token = <<"7", "2", "0", "P">> THEN F720p
        ELSE IF starts # {} /\ number >= 2160 THEN F4K
        ELSE IF starts # {} /\ number >= 1080 THEN F1080p
        ELSE IF starts # {} /\ number >= 720 THEN F720p
        ELSE IF Contains(token, <<"4", "K">>) \/ Contains(token, <<"U", "H", "D">>) THEN F4K
        ELSE FSD

\* C14: for every non-empty token both scrapers' normalize returns what
\* the staged rule gives, so the two agree.
C14_NormalizeIsStaged ==
    (NormalizeCalled /\ call.raw # None) =>
        /\ ret.full = Staged(call.raw)
        /\ ret.fast = Staged(call.raw)

\* C15: in both scrapers the category of a page is HD exactly when its
\* canonical quality is 4K, 1080p or 720p and SD exactly when it is SD,
\* a page without a quality token included.
C15_CategoryFollowsQuality ==
    (ret.done /\ call.fn = "extract_series_format_category") =>
        /\ ret.full.category = <<"H", "D">> <=> ret.full.format \in {F4K, F1080p, F720p}
        /\ ret.full.category = <<"S", "D">> <=> ret.full.format = FSD
        /\ ret.fast.category = <<"H", "D">> <=> ret.fast.format \in {F4K, F1080p, F720p}
        /\ ret.fast.category = <<"S", "D">> <=> ret.fast.format = FSD

\* the token of the first of the five strategies that succeeds, or null
FirstOfFive(page) ==
    IF page.title # None THEN page.title
    ELSE IF page.heading # None THEN page.heading
    ELSE IF page.formato # None THEN page.formato
    ELSE IF page.text # None THEN page.text
    ELSE page.href

\* C16: extract_raw_quality returns the token of the first of its five
\* strategies (title, heading, "Formato:", page text, torrent file name)
\* that succeeds, and null only when all five fail.
C16_FirstStrategyWins ==
    (ret.done /\ call.fn = "extract_series_format") =>
        /\ UpperStr(ret.full) = UpperStr(FirstOfFive(call.page))
        /\ UpperStr(ret.fast) = UpperStr(FirstOfFive(call.page))

(***************************************************************************)
(* SpecSelect: the sort and the split at the end of                        *)
(* DontorrentScraper.scrape, applied to any list of gathered torrents.     *)
(***************************************************************************)
MaxCandidates == 3

SelectCodes == {<<"S", "0", "1", "E", "0", "1">>, <<"S", "0", "1", "E", "0", "2">>}

SelectFormats == {"720p", "1080p", "4K", "SD"}

\* the torrent _get_episodes builds for a row of a page of the format; link
\* tells the torrents of a list apart
Gathered(code, format, link) ==
    [status |-> Tagged(FormatCategory(format), code),
     episode_code |-> Tagged(FormatCategory(format), code),
     format |-> format, link |-> link]

InitSelect ==
    /\ CrawlIdle /\ ServeIdle
    /\ ret = [done |-> FALSE]
    /\ \E n \in 0..MaxCandidates :
         \E codes \in [1..n -> SelectCodes], formats \in [1..n -> SelectFormats] :
            call = [fn |-> "select",
                    all_torrents |-> [i \in 1..n |-> Gathered(codes[i], formats[i], i)]]

Select ==
    /\ call.fn = "select"
    /\ ~ret.done
    /\ ret' = [done |-> TRUE, result |-> ScrapeResult(Full, call.all_torrents)]
    /\ UNCHANGED <<call, crawlVars, serveVars>>

SpecSelect == InitSelect /\ [][Select]_vars

(***************************************************************************)
(* Claims about the selection (SpecSelect)                                 *)
(***************************************************************************)
\* the fixed table 720p > 1080p > 4K > SD: the place of a format in it
PriorityPlace(format) ==
    CHOOSE k \in 1..4 : <<"720p", "1080p", "4K", "SD">>[k] = format

Range(seq) == {seq[i] : i \in 1..Len(seq)}

E01In(format, link) == Gathered(<<"S", "0", "1", "E", "0", "1">>, format, link)

C11_StatusWellFormed ==
    \A t \in Candidates : IsValidStatusFormat(t.status)

InExchange == pc \in {"generate", "searching", "validate"}

\* the generate requests sent for the row in hand
GenerateRequests == {i \in 1..Len(sent) : sent[i].kind = "generate"}

\* C18: under the early-exit policy an episode whose page offers 720p and 4K
\* is resolved as 720p, with a single challenge request.
C18_EarlyExitTakes720p ==
    (variant = Fast /\ InExchange /\ {F720p, F4K} \subseteq ep.text) =>
        /\ ep.format = "720p"
        /\ Cardinality(GenerateRequests) = 1

\* C19: under the early-exit policy at most one download link of an episode
\* is put through the exchange, whatever the exchange answers.
C19_OneLinkPerEpisode ==
    variant = Fast =>
        Cardinality({sent[i].stub[3] : i \in GenerateRequests}) <= 1

\* the candidates a returned result holds
Returned ==
    IF ~result.returned THEN {}
    ELSE Range(result.torrents)
         \cup (IF variant = Full /\ "torrents_rest" \in DOMAIN result
               THEN Range(result.torrents_rest) ELSE {})

\* C20: an exchange that fails on a row loses that row's candidate only: the
\* loop over the rows goes on with the torrents it had, and every candidate
\* gathered reaches the result of the scrape.
C20_FailureSkipsOneRow ==
    [][/\ (pc \in {"generate", "validate"} /\ pc' = "rows" /\ torrents' = torrents) =>
            /\ pow'.failed # 0
            /\ row' = row /\ all_torrents' = all_torrents /\ ~result'.returned
       /\ pc \in {"generate", "validate"} =>
            /\ pc' \in {"generate", "searching", "validate", "rows"}
            /\ Len(torrents') >= Len(torrents)
            /\ SubSeq(torrents', 1, Len(torrents)) = torrents
            /\ all_torrents' = all_torrents
       /\ (pc = "rows" /\ pc' \in {"page", "done"}) =>
            Range(all_torrents') = Range(all_torrents) \cup Range(torrents)
       /\ (pc = "rows" /\ pc' = "done") =>
            Returned' = Range(all_torrents')]_vars

\* a row's exchange failed and a row after it gave a candidate
C20_Witness ==
    /\ pow.failed # 0
    /\ \E i \in 1..Len(torrents) : torrents[i].stub[2] > pow.failed

\* C21: a page of one series or season that cannot be fetched or parsed adds
\* nothing to the candidates gathered and ends neither the scrape nor its
\* loop: the next page is crawled and, after the last page, the result holds
\* every candidate gathered and is no error.
C21_PageFailureIsLocal ==
    [][(pc = "page" /\ pc' # "rows") =>
          /\ all_torrents' = all_torrents
          /\ IF pages.page < pages.last
             THEN /\ pc' = "page"
                  /\ pages'.page = pages.page + 1 /\ pages'.last = pages.last
                  /\ ~result'.returned
             ELSE /\ pc' = "done"
                  /\ result'.returned
                  /\ "error" \notin DOMAIN result'
                  /\ Returned' = Range(all_torrents)]_vars

\* the last of two series pages could not be read (no format was taken from
\* it) and the result holds a candidate of the page before it
C21_Witness ==
    /\ variant = Full /\ pc = "done"
    /\ pages.last = MaxPages /\ pages.page = pages.last /\ pages.format = ""
    /\ Len(result.torrents) > 0
    /\ "error" \notin DOMAIN result

\* C22: a scrape whose criteria lack base_url, serie_name, start_episode or
\* end_episode ends, in both scrapers, in a returned error result without
\* torrents: it raises nothing, crawls no page and sends no request.
C22_LackingCriteriaGiveError ==
    Lacking(criteria) =>
        /\ pc \in {"scrape", "done"}
        /\ sent = <<>> /\ all_torrents = <<>>
        /\ pc = "done" =>
              /\ result.returned
              /\ "error" \in DOMAIN result
              /\ result.torrents = <<>>

(***************************************************************************)
(* SpecSearch: _search_series of both scrapers, with _matches_series_name  *)
(* and _extract_series_name_from_title, applied to the links of a search   *)
(* page.                                                                   *)
(***************************************************************************)
MaxResults == 2

\* str.lower(), on the letters titles are written with
LowerStr(s) ==
    [i \in 1..Len(s) |->
        IF \E k \in 1..Len(UpperLetters) : UpperLetters[k] = s[i]
        THEN LowerLetters[CHOOSE k \in 1..Len(UpperLetters) : UpperLetters[k] = s[i]]
        ELSE s[i]]

\* separators of _extract_series_name_from_title; "endash" is the one
\* character U+2013
Separators ==
    <<<<" ", "-", " ">>, <<" ", "endash", " ">>, <<" ", "|", " ">>, <<" ", ":", " ">>,
      <<" ", "t", "e", "m", "p", "o", "r", "a", "d", "a", " ">>,
      <<" ", "s", "e", "a", "s", "o", "n", " ">>>>

\* re.sub(r'[^\w\s...]', '', s).strip(): letters, digits, "_" and blanks stay
CleanName(s) ==
    Strip(SelectSeq(s, LAMBDA c :
        \/ c = " " \/ c = "_" \/ c \in Digits
        \/ \E k \in 1..Len(LowerLetters) : c \in {LowerLetters[k], UpperLetters[k]}))

\* the loop over the separators from the k-th on: the separator is looked
\* for whatever the case, the title is split on it as it is written
RECURSIVE NameFromSeparator(_, _)
NameFromSeparator(title, k) ==
    LET sep == IF k > Len(Separators) THEN <<>> ELSE Separators[k]
        \* where title.split(sep, 1) cuts
        at == {i \in 1..(Len(title) - Len(sep) + 1) :
                  SubSeq(title, i, i + Len(sep) - 1) = sep}
    IN  IF k > Len(Separators) THEN CleanName(title)
        ELSE IF Contains(LowerStr(title), LowerStr(sep)) /\ at # {}
        THEN CleanName(Strip(SubSeq(title, 1, MinOf(at) - 1)))
        ELSE NameFromSeparator(title, k + 1)

\* DontorrentScraper._extract_series_name_from_title
ExtractSeriesNameFromTitle(title) == NameFromSeparator(title, 1)

\* DontorrentScraper._matches_series_name: the match flag
MatchesSeriesName(title, search_name) ==
    LET \* s.lower().replace(" ", "")
        norm(s) == SelectSeq(LowerStr(s), LAMBDA c : c # " ")
        startswith(s, t) == Len(t) <= Len(s) /\ SubSeq(s, 1, Len(t)) = t
        title_norm == norm(ExtractSeriesNameFromTitle(title))
        search_norm == norm(search_name)
    IN  \/ title_norm = search_norm
        \/ startswith(title_norm, search_norm)
        \/ startswith(search_norm, title_norm)

\* DontorrentScraper._search_series: failed when the request raised
SearchSeries(links, serie_name, failed) ==
    IF failed THEN <<>>
    ELSE LET found == SelectSeq(links, LAMBDA l : MatchesSeriesName(l.title, serie_name))
         IN  [i \in 1..Len(found) |->
                 [title |-> ExtractSeriesNameFromTitle(found[i].title),
                  title_original |-> found[i].title,
                  href |-> found[i].href]]

\* DontorrentFastScraper._search_series: the href of the series it returns,
\* or None.  The page of a link is what get_html answers with for it: None
\* when the request failed (parsing it raises), or <<the series page>>.
FastSearchSeries(links, calidad, failed) ==
    IF failed THEN None
    ELSE LET taken == {i \in 1..Len(links) :
                         \/ calidad = None
                         \/ /\ links[i].page # None
                            /\ UpperStr(FastExtractSeriesFormatCategory(links[i].page[1]).category)
                                  = UpperStr(calidad)}
         IN  IF taken = {} THEN None ELSE <<links[MinOf(taken)].href>>

\* the links of a search page: their texts, and their series pages, with
\* no quality token (HD for the fast scraper), with HDRip (SD), or that
\* cannot be fetched
InitSearch ==
    /\ CrawlIdle /\ ServeIdle
    /\ ret = [done |-> FALSE]
    /\ \E n \in 0..MaxResults :
         \E titles \in [1..n -> {<<"a", "b">>,
                                  <<"A", " ", "b", " ", "-", " ", "1">>,
                                  <<"a", "b", "d", "!">>,
                                  <<"a">>,
                                  <<"b">>}],
            series \in [1..n -> {<<NoPage>>,
                                  <<[NoPage EXCEPT !.text = <<"H", "D", "R", "i", "p">>]>>,
                                  None}],
            q \in {<<"a", "b">>, <<"A", " ", "B">>},
            c \in {None, <<"H", "D">>}, failed \in BOOLEAN :
            /\ failed => n = 0
            /\ call = [fn |-> "search_series", serie_name |-> q, calidad |-> c,
                       failed |-> failed,
                       links |-> [i \in 1..n |->
                                    [title |-> titles[i], href |-> i, page |-> series[i]]]]

Search ==
    /\ call.fn = "search_series"
    /\ ~ret.done
    /\ ret' = [done |-> TRUE,
               full |-> SearchSeries(call.links, call.serie_name, call.failed),
               fast |-> FastSearchSeries(call.links, call.calidad, call.failed)]
    /\ UNCHANGED <<call, crawlVars, serveVars>>

SpecSearch == InitSearch /\ [][Search]_vars

(***************************************************************************)
(* Claims about the series resolver (SpecSearch)                           *)
(***************************************************************************)
\* lowercased and with the whitespace removed
Squashed(name) == SelectSeq(LowerStr(name), LAMBDA c : c # " ")

\* two names match: equal, or one a prefix of the other
NamesMatch(found, query) ==
    LET a == Squashed(found)
        b == Squashed(query)
        n == Min(Len(a), Len(b))
    IN  SubSeq(a, 1, n) = SubSeq(b, 1, n)

\* the hrefs of the links whose extracted name matches, in page order
MatchingLinks ==
    LET hit == SelectSeq(call.links, LAMBDA l :
                   NamesMatch(ExtractSeriesNameFromTitle(l.title), call.serie_name))
    IN  [i \in 1..Len(hit) |-> hit[i].href]

\* C23: in both scrapers the resolver returns every link of the search page
\* whose extracted name matches the query, and only those, in page order.
C23_ResolverReturnsAllMatches ==
    (ret.done /\ call.fn = "search_series") =>
        /\ [i \in 1..Len(ret.full) |-> ret.full[i].href] = MatchingLinks
        /\ ret.fast = MatchingLinks

(***************************************************************************)
(* Serving: scrape_site of api/routes.py, ScraperManager.scrape and the    *)
(* scrape it calls, for two requests.  In SpecServe the handlers run on    *)
(* the event loop, as the async def of routes.py makes them; in            *)
(* SpecThreads the same steps of two invocations interleave freely.        *)
(***************************************************************************)
Requests == {1, 2}

Wanted ==
    [base_url |-> <<"base_url">>, serie_name |-> <<"serie_name">>,
     start_episode |-> <<"S", "0", "1", "E", "0", "1">>,
     end_episode |-> <<"S", "0", "1", "E", "0", "2">>]

\* criteria that is no dict
NotADict == [type |-> "NoneType"]

\* what a request asks for: complete criteria, an empty start_episode, no
\* end_episode key, no dict; another scraper; a site that is not registered
Asked ==
    {[site |-> "dontorrent", criteria |-> c] :
        c \in {Wanted, [Wanted EXCEPT !.start_episode = None],
               [k \in {"base_url", "serie_name", "start_episode"} |-> Wanted[k]],
               NotADict}}
    \cup {[site |-> "quotes", criteria |-> c] : c \in {[url |-> <<"url">>], Wanted}}
    \cup {[site |-> "dontorrent-fast", criteria |-> Wanted]}

\* validated, scraped, met and own are history: what validate_criteria
\* answered, whether scraper.scrape was called, whether another request was
\* in flight when this one started, the torrents of its own exchanges
Request(asked) ==
    [site |-> asked.site, criteria |-> asked.criteria, pc |-> "waiting",
     validated |-> "", scraped |-> FALSE, met |-> FALSE,
     challenge |-> None, nonce |-> 0, all_torrents |-> <<>>, own |-> <<>>,
     result |-> [status |-> ""]]

\* validate_criteria of the scraper of the site: all(key in criteria ...),
\* which raises TypeError when criteria is no dict
ValidateCriteria(site, c) ==
    IF c = NotADict THEN "raise"
    ELSE IF (IF site = "dontorrent"
             THEN {"base_url", "serie_name", "start_episode", "end_episode"}
             ELSE {"url"}) \subseteq DOMAIN c
    THEN "true" ELSE "false"

\* a manager that goes on unless validate_criteria returned False
ValidationNotRefused(outcome) == outcome # "false"

\* if not scraper.validate_criteria(criteria), inside its try
ValidationPassed(outcome) == outcome = "true"

\* the results ScraperManager.scrape builds itself
Failed(error) == [error |-> error, status |-> "failed"]

\* result["status"] = result.get("status", "success" if "error" not in
\* result else "failed"), on the result of a scrape
WithStatus(scraped) ==
    [k \in DOMAIN scraped \cup {"status"} |->
        IF k # "status" THEN scraped[k]
        ELSE IF "error" \in DOMAIN scraped THEN "failed" ELSE "success"]

\* scrape_site calls scraper_manager.scrape
Start(i) ==
    /\ inbound[i].pc = "waiting"
    /\ inbound' = [inbound EXCEPT
                      ![i].pc = "lookup",
                      ![i].met = \E j \in Requests :
                                    inbound[j].pc \notin {"waiting", "responded"}]
    /\ UNCHANGED manager

\* ScraperManager.scrape up to the call of scraper.scrape
ManagerScrape(i) ==
    /\ inbound[i].pc = "lookup"
    /\ LET r == inbound[i]
           outcome == ValidateCriteria(r.site, r.criteria)
       IN  inbound' = [inbound EXCEPT ![i] =
               IF r.site \notin DOMAIN manager
               THEN [r EXCEPT !.pc = "return", !.result = Failed("not found")]
               ELSE IF ValidationPassed(outcome)
               THEN [r EXCEPT !.pc = "scrape", !.validated = outcome]
               ELSE [r EXCEPT !.pc = "return", !.validated = outcome,
                              !.result = Failed(IF outcome = "false"
                                                THEN "invalid criteria"
                                                ELSE "validation error")]]
    /\ UNCHANGED manager

\* scraper.scrape(criteria) up to the answer of the search; the scrape of
\* another scraper returns a result, returns an error, or raises
ScrapeCall(i) ==
    /\ inbound[i].pc = "scrape"
    /\ LET r == [inbound[i] EXCEPT !.scraped = TRUE]
           c == r.criteria
           get(k) == IF k \in DOMAIN c THEN c[k] ELSE None
       IN  \E found \in BOOLEAN, other \in {"result", "error", "raise"} :
             inbound' = [inbound EXCEPT ![i] =
               IF r.site # "dontorrent"
               THEN [r EXCEPT !.pc = "return",
                              !.result = CASE other = "result" -> WithStatus([data |-> <<>>])
                                           [] other = "error" ->
                                                WithStatus([error |-> "error", data |-> <<>>])
                                           [] other = "raise" -> Failed("scraping error")]
               ELSE IF c = NotADict
               THEN [r EXCEPT !.pc = "return", !.result = Failed("scraping error")]
               ELSE IF Lacking([base_url |-> get("base_url"),
                                serie_name |-> get("serie_name"),
                                start_episode |-> get("start_episode"),
                                end_episode |-> get("end_episode")])
               THEN [r EXCEPT !.pc = "return", !.result = WithStatus(MissingParameters)]
               ELSE IF ~found
               THEN [r EXCEPT !.pc = "return", !.result = WithStatus(NothingFound(Full))]
               ELSE [r EXCEPT !.pc = "page"]]
    /\ UNCHANGED manager

\* the page of the series and its row, up to the answer to the challenge
\* request: the nonce search starts, or the row is skipped
PageAnswer(i) ==
    /\ inbound[i].pc = "page"
    /\ \E resp \in GenerateResponses :
          inbound' = [inbound EXCEPT ![i] =
             IF FullChallengeAccepted(resp)
             THEN [@ EXCEPT !.pc = "pow", !.challenge = resp.challenge, !.nonce = 0]
             ELSE [@ EXCEPT !.pc = "sort"]]
    /\ UNCHANGED manager

\* one pass of the while loop of _compute_proof_of_work, in the handler
PowPass(i) ==
    /\ inbound[i].pc = "pow"
    /\ inbound[i].nonce <= MaxNonce
    /\ LET it == PowIteration(Full, inbound[i].challenge, DefaultDifficulty,
                              inbound[i].nonce)
       IN  inbound' = [inbound EXCEPT
                         ![i].nonce = it.nonce,
                         ![i].pc = IF it.returned THEN "validate" ELSE "pow"]
    /\ UNCHANGED manager

\* a scrape that keeps its list of torrents on the scraper instance
GatherOnInstance(i, found) ==
    LET site == inbound[i].site
        kept == IF "torrents" \in DOMAIN manager[site]
                THEN manager[site].torrents ELSE <<>>
    IN  /\ manager' = [manager EXCEPT ![site] =
               [name |-> @.name, headers |-> @.headers, timeout |-> @.timeout,
                torrents |-> kept \o found]]
        /\ inbound' = [inbound EXCEPT ![i].all_torrents = kept \o found,
                                      ![i].own = @ \o found,
                                      ![i].pc = "sort"]

\* torrents.append(torrent) and all_torrents.extend(episodes): lists that
\* are locals of _get_episodes and scrape
Gather(i, found) ==
    /\ inbound' = [inbound EXCEPT ![i].all_torrents = @ \o found,
                                  ![i].own = @ \o found,
                                  ![i].pc = "sort"]
    /\ UNCHANGED manager

\* the answer to the validate request: the torrent of the row, or nothing
ValidateAnswer(i) ==
    /\ inbound[i].pc = "validate"
    /\ \E resp \in ValidateResponses(<<i>>) :
          Gather(i, IF FullValidateAccepted(resp)
                    THEN <<[status |-> <<"H", "D">> \o Wanted.start_episode,
                            format |-> "720p", link |-> resp.url]>>
                    ELSE <<>>)

\* the sort and the split of scrape, and the status the manager adds
SortAndReturn(i) ==
    /\ inbound[i].pc = "sort"
    /\ inbound' = [inbound EXCEPT
                      ![i].pc = "return",
                      ![i].result = WithStatus(ScrapeResult(Full, inbound[i].all_torrents))]
    /\ UNCHANGED manager

\* scrape_site returns the response: 400 for a failed result
Respond(i) ==
    /\ inbound[i].pc = "return"
    /\ inbound' = [inbound EXCEPT ![i].pc = "responded"]
    /\ UNCHANGED manager

\* the code of a handler once it was called: it holds no await
Handler(i) ==
    \/ ManagerScrape(i)
    \/ ScrapeCall(i)
    \/ PageAnswer(i)
    \/ PowPass(i)
    \/ ValidateAnswer(i)
    \/ SortAndReturn(i)
    \/ Respond(i)

InitServe ==
    /\ CrawlIdle
    /\ call = [fn |-> "none"]
    /\ ret = [done |-> FALSE]
    /\ loop = 0
    /\ manager = Registered
    /\ inbound \in [Requests -> {Request(a) : a \in Asked}]

\* the event loop takes a request that waits when no handler runs
Dispatch(i) ==
    /\ loop = 0
    /\ Start(i)
    /\ loop' = i

\* the handler on the event loop goes on, up to its return
OnLoop(i) ==
    /\ loop = i
    /\ Handler(i)
    /\ loop' = IF inbound'[i].pc = "responded" THEN 0 ELSE i

NextServe ==
    \E i \in Requests :
        /\ Dispatch(i) \/ OnLoop(i)
        /\ UNCHANGED <<crawlVars, codeVars>>

SpecServe == InitServe /\ [][NextServe]_vars

\* two invocations of ScraperManager.scrape, a thread each
NextThreads ==
    \E i \in Requests :
        /\ Start(i) \/ Handler(i)
        /\ UNCHANGED <<loop, crawlVars, codeVars>>

SpecThreads == InitServe /\ [][NextThreads]_vars

(***************************************************************************)
(* Claims about the requests in flight (SpecServe, SpecThreads)            *)
(***************************************************************************)
\* C24: while the handler of one request is in the nonce search, a request
\* that waits can be taken up: its handler can start.
C24_PowDoesNotStallRequests ==
    \A i, j \in Requests :
        (inbound[i].pc = "pow" /\ inbound[j].pc = "waiting") => ENABLED Dispatch(j)

\* what the invocation returns when it runs alone against the answers it
\* got: the sort and the split of the torrents of its own exchanges
SoloResult(r) == WithStatus(ScrapeResult(Full, r.own))

\* C25: however two invocations on the scrapers of the manager interleave,
\* a step of one changes neither the scrapers nor anything of the other,
\* the list an invocation holds is that of its own exchanges, and the
\* result of a scrape is the one it gives when it runs alone.
C25_InvocationsAreIndependent ==
    [][/\ manager' = manager
       /\ \A i, j \in Requests :
             (i # j /\ inbound'[i] # inbound[i]) => inbound'[j] = inbound[j]
       /\ \A i \in Requests :
             /\ inbound'[i].all_torrents = inbound'[i].own
             /\ (inbound[i].pc = "sort" /\ inbound'[i].pc = "return") =>
                   inbound'[i].result = SoloResult(inbound[i])]_vars

\* two scrapes of the same scraper overlapped and each returned the torrent
\* of its own exchange
C25_Witness ==
    /\ \A i \in Requests :
          /\ inbound[i].site = "dontorrent"
          /\ inbound[i].pc = "responded"
          /\ inbound[i].result.status = "success"
          /\ inbound[i].result.torrents = inbound[i].own
          /\ Len(inbound[i].own) = 1
    /\ inbound[1].own # inbound[2].own
    /\ \E i \in Requests : inbound[i].met

\* C28: scraper.scrape is called only for a site that has a scraper whose
\* validate_criteria returned True for the criteria; a request that ends
\* without it (unknown site, validation False or raising) has a result with
\* status "failed", and every request that left the manager has a result
\* with a status: nothing was raised.
C28_ScrapeOnlyWhenValidated ==
    \A i \in Requests :
        LET r == inbound[i]
        IN  /\ (r.scraped \/ r.pc \in {"scrape", "page", "pow", "validate", "sort"}) =>
                  /\ r.site \in DOMAIN manager
                  /\ r.validated = "true"
                  /\ ValidateCriteria(r.site, r.criteria) = "true"
            /\ r.pc \in {"return", "responded"} =>
                  /\ r.result.status \in {"success", "failed"}
                  /\ ~r.scraped => r.result.status = "failed"
                  /\ r.result.status = "success" => r.scraped

\* validate_criteria raised for one request and the scraper of the other
\* was called and returned
C28_Witness ==
    /\ inbound[1].pc = "responded"
    /\ inbound[1].validated = "raise" /\ ~inbound[1].scraped
    /\ inbound[1].result = Failed("validation error")
    /\ inbound[2].pc = "responded"
    /\ inbound[2].scraped /\ inbound[2].result.status = "success"

(***************************************************************************)
(* SpecCalidad: DontorrentScraper._get_episodes and the end of scrape as a *)
(* function of the criteria and of what the site answers, applied to two   *)
(* values of calidad.                                                      *)
(***************************************************************************)
MaxTableRows == 2

\* the body of the loop of _get_episodes for the n-th row up to the call of
\* _get_protected_download_url: the torrent it is about to fill in, if the
\* row gets that far
RowTorrent(found, r, n, start_episode, end_episode) ==
    {[status |-> status, episode_code |-> status,
      format |-> FormatName(found.format),
      link |-> DownloadUrl(<<n>>)] :
        status \in {x \in {Tagged(found.category, ExtractEpisodeCode(r.label))} :
                       FullRowVerdict([label |-> r.label, link |-> r.link],
                                      x, start_episode, end_episode) = "generate"}}

\* the loop over the rows of _get_episodes, found being the format and the
\* category of the page: the challenge requests it sends (the row each is
\* for) and the torrents it appends
RECURSIVE EpisodesOfRows(_, _, _, _)
EpisodesOfRows(found, rows, start_episode, end_episode) ==
    IF rows = <<>> THEN [requests |-> <<>>, torrents |-> <<>>]
    ELSE LET n == Len(rows)
             front == EpisodesOfRows(found, SubSeq(rows, 1, n - 1), start_episode, end_episode)
             asked == RowTorrent(found, rows[n], n, start_episode, end_episode)
         IN  IF asked = {} THEN front
             ELSE [requests |-> Append(front.requests, n),
                   torrents |-> IF rows[n].exchange # "link" THEN front.torrents
                                ELSE Append(front.torrents, CHOOSE t \in asked : TRUE)]

\* a _get_episodes that gives nothing for a page of another category than
\* the one asked for
GetEpisodesOfQuality(page, rows, start_episode, end_episode, calidad) ==
    IF calidad # None /\ ExtractSeriesFormatCategory(page).category # calidad
    THEN [requests |-> <<>>, torrents |-> <<>>]
    ELSE EpisodesOfRows(ExtractSeriesFormatCategory(page), rows, start_episode, end_episode)

\* DontorrentScraper._get_episodes(serie_data, base_url, start_episode,
\* end_episode, calidad): calidad is not read
GetEpisodes(page, rows, start_episode, end_episode, calidad) ==
    EpisodesOfRows(ExtractSeriesFormatCategory(page), rows, start_episode, end_episode)

InitCalidad ==
    /\ CrawlIdle /\ ServeIdle
    /\ ret = [done |-> FALSE]
    /\ \E n \in 0..MaxTableRows :
         \* a row of the table, and what the exchange for it ends in
         \E rows \in [1..n -> {[label |-> l, link |-> k[1], exchange |-> k[2]] :
                                  l \in RowLabels,
                                  k \in {<<"noanchor", "error">>, <<"ok", "error">>,
                                         <<"ok", "link">>}}],
            page \in CrawlPages,
            s \in StartEpisodes,
            c \in {<<None, <<"H", "D">>>>, <<<<"H", "D">>, <<"S", "D">>>>} :
            call = [fn |-> "scrape", page |-> page, rows |-> rows,
                    start_episode |-> s,
                    end_episode |-> <<"S", "0", "2", "E", "0", "1">>,
                    calidad |-> c]

\* scrape for a series of one page, with calidad[1] and with calidad[2]
ScrapeTwice ==
    /\ call.fn = "scrape"
    /\ ~ret.done
    /\ \E first \in {GetEpisodes(call.page, call.rows, call.start_episode,
                                  call.end_episode, call.calidad[1])},
          second \in {GetEpisodes(call.page, call.rows, call.start_episode,
                                   call.end_episode, call.calidad[2])} :
          ret' = [done |-> TRUE,
                  first |-> [requests |-> first.requests,
                             result |-> ScrapeResult(Full, first.torrents)],
                  second |-> [requests |-> second.requests,
                              result |-> ScrapeResult(Full, second.torrents)]]
    /\ UNCHANGED <<call, crawlVars, serveVars>>

SpecCalidad == InitCalidad /\ [][ScrapeTwice]_vars

C26_FastReturnsOnePerEpisode ==
    (variant = Fast /\ pc = "done" /\ result.returned) =>
        /\ "torrents_rest" \notin DOMAIN result
        /\ \A i, j \in 1..Len(result.torrents) :
              result.torrents[i].episode_code = result.torrents[j].episode_code => i = j

\* how often t is in seq
Occurrences(seq, t) == Cardinality({i \in 1..Len(seq) : seq[i] = t})

\* C27: in a result of the exhaustive scraper every gathered torrent is in
\* the primary list or in the alternatives, as often as it was gathered and
\* in one of the two only; count and count_rest are the sizes of the two
\* lists and count_total is their sum.
C27_ListsPartitionTheCandidates ==
    (ret.done /\ call.fn = "select") =>
        LET all == call.all_torrents
            primary == ret.result.torrents
            rest == ret.result.torrents_rest
        IN  /\ \A t \in Range(all) \cup Range(primary) \cup Range(rest) :
                  /\ Occurrences(primary, t) + Occurrences(rest, t) = Occurrences(all, t)
                  /\ Occurrences(primary, t) = 0 \/ Occurrences(rest, t) = 0
            /\ ret.result.count = Len(primary)
            /\ ret.result.count_rest = Len(rest)
            /\ ret.result.count_total = ret.result.count + ret.result.count_rest

\* three torrents of one status were gathered: one is primary, two are
\* alternatives
C27_Witness ==
    /\ ret.done /\ call.fn = "select"
    /\ Len(call.all_torrents) = 3
    /\ \A i \in 1..3 : call.all_torrents[i].status = call.all_torrents[1].status
    /\ ret.result.count = 1
    /\ ret.result.count_rest = 2
    /\ ret.result.count_total = 3

(***************************************************************************)
(* Claims about bounds that cannot be parsed (SpecCodes)                   *)
(***************************************************************************)
\* C30: in both scrapers a start that carries no SxxExx sets no lower bound
\* and an end that carries none sets no upper bound: the code is in range
\* exactly when the other bound, if it can be parsed, does not exclude it,
\* and the row of a code in range goes on to the resolution of its link.
C30_UnparsableBoundIsIgnored ==
    RangeCalled =>
        LET lower == call.start.pair = None \/ LexLeq(call.start.pair, call.pair)
            upper == call.end.pair = None \/ LexLeq(call.pair, call.end.pair)
        IN  (call.start.pair = None \/ call.end.pair = None) =>
               /\ (ret.full = "in") <=> (lower /\ upper)
               /\ (ret.fast = "in") <=> (lower /\ upper)
               /\ (lower /\ upper) =>
                     /\ FullRowVerdict([label |-> call.code, link |-> "ok"], call.code,
                                       call.start.text, call.end.text) = "generate"
                     /\ FastRowVerdict(StripTag(call.code), call.start.text,
                                       call.end.text) = "episode"

\* S01E01 with a start that cannot be parsed and the end S02E02: in range
C30_Witness ==
    /\ RangeCalled
    /\ call.start.text = Unparsable
    /\ call.end.text = S02E02
    /\ call.pair = <<1, 1>>
    /\ ret.full = "in" /\ ret.fast = "in"

====
